---- MODULE Spec2Model ----
(***************************************************************************)
(* Model of package echosentry (capture.go): the process-wide Sentry       *)
(* configuration, its three setters, and the panic-recovering echo         *)
(* middleware.  Every wrapper invocation is a process whose deferred       *)
(* function is split at each access to the shared variables `sentry' and   *)
(* `tagsFunc', which are read and written without synchronisation.         *)
(***************************************************************************)
EXTENDS Integers, Sequences, FiniteSets, TLC

\* ------------------------------------------------------------------ bounds
MaxBodyLen == 2      \* bytes in a request body

\* Goroutines of the host that run the wrapper.
Slots == {"w1", "w2"}

\* ------------------------------------------------------------- value space
Nil == "nil"               \* the nil TagsFunc, the nil error
NilClient == [dsn |-> ""]  \* the nil *raven.Client

\* DSN strings handed to SetDSN; raven.New rejects the malformed one.
ValidDSNs == {"https://k@sentry.io/1"}
MalformedDSNs == {"::not-a-dsn"}
DSNs == ValidDSNs \cup MalformedDSNs

Paths == {"/a", "/b"}

\* Body bytes: the i-th byte of every body is BodyByte(i).
BodyAlphabet == <<"{", "x", "}">>
BodyByte(i) == BodyAlphabet[((i - 1) % Len(BodyAlphabet)) + 1]
BodyOfLen(n) == [i \in 1..n |-> BodyByte(i)]

\* Tag maps are sets of <<key, value>> pairs; the nil map is the empty set.
NoTags == {}

\* Registered TagsFunc values (Nil = none registered).
TagsFuncs == {"fnEnv", "fnPath", "fnPanic"}

\* Values a handler can pass to panic().
PNone == [kind |-> "none", s |-> "", n |-> 0]     \* no panic in progress
PNil == [kind |-> "nil", s |-> "", n |-> 0]       \* panic(nil)
PStr(s) == [kind |-> "string", s |-> s, n |-> 0]
PInt(n) == [kind |-> "int", s |-> "", n |-> n]
PErr(s) == [kind |-> "error", s |-> s, n |-> 0]
PRuntime(s) == [kind |-> "runtime", s |-> s, n |-> 0]
Payloads == {PNil, PStr("boom"), PInt(42), PErr("bad")}

NilFuncCall == PRuntime("invalid memory address or nil pointer dereference")
ExtractorPanic == PStr("extractor failed")

\* Results of h(c): nil, an ordinary error, or a panic.
HNil == [kind |-> "nil", err |-> "", payload |-> PNone]
HErr(e) == [kind |-> "err", err |-> e, payload |-> PNone]
HPanic(p) == [kind |-> "panic", err |-> "", payload |-> p]
HandlerResults == {HNil, HErr("not found")} \cup {HPanic(p) : p \in Payloads}

\* ---------------------------------------------------------- pure functions

\* raven.New(dsn): a client, and an error for a malformed DSN.
RavenNew(dsn) ==
  [client |-> [dsn |-> dsn], err |-> IF dsn \in ValidDSNs THEN Nil ELSE "bad dsn"]

\* recover() in the deferred function.  A build with the pre-1.21 panic
\* semantics (GODEBUG panicnil=1) returns nil for panic(nil); otherwise the
\* runtime substitutes a *runtime.PanicNilError.
Recover(h, legacyNil) ==
  IF h.kind # "panic" THEN PNone
  ELSE IF h.payload.kind = "nil"
       THEN IF legacyNil THEN PNone
            ELSE PRuntime("panic called with nil argument (obsolete: use GODEBUG=panicnil=1)")
       ELSE h.payload

\* if rval := recover(); rval != nil
ShouldCaptureAlways(rval) == TRUE
ShouldCapture(rval) == rval.kind # "none"

\* The payload's type in place of its text.
SprintType(rval) == rval.kind
\* fmt.Sprint(rval)
IntText(n) == IF n = 42 THEN "42" ELSE IF n = 0 THEN "0" ELSE "?"
Sprint(rval) ==
  CASE rval.kind = "string" -> rval.s
    [] rval.kind = "int" -> IntText(rval.n)
    [] rval.kind = "error" -> rval.s
    [] rval.kind = "runtime" -> rval.s
    [] OTHER -> "<nil>"

\* raven.Http values: &raven.Http{} and raven.NewHttp(req).
EmptyHttp == [URL |-> "", Method |-> "", Headers |-> {}]
NewHttp(c) ==
  [URL |-> "http://host" \o c.path, Method |-> c.method, Headers |-> c.headers]

\* httpContext := &raven.Http{}; if sentry.withContext { ... NewHttp ... }
HttpContextAlways(withContext, c) == NewHttp(c)
HttpContext(withContext, c) == IF withContext THEN NewHttp(c) ELSE EmptyHttp

\* tagsFunc(c) for the extractors of the model that return.
ApplyTagsFunc(fn, c) ==
  CASE fn = "fnEnv" -> {<<"env", "prod">>}
    [] fn = "fnPath" -> {<<"path", c.path>>}
    [] OTHER -> NoTags

\* sentry.Tags = tagsFunc(c)
StoreTagsSkip(s, fn, c) == s
\* The whole struct replaced by one holding only the new tags.
StoreTagsReplace(s, fn, c) ==
  [withContext |-> FALSE, RavenClient |-> NilClient, Tags |-> ApplyTagsFunc(fn, c)]
StoreTags(s, fn, c) == [s EXCEPT !.Tags = ApplyTagsFunc(fn, c)]

\* The part of the body stream not yet read.
Unread(c) == SubSeq(c.body, c.off + 1, Len(c.body))

\* ioutil.ReadAll(c.Request().Body), guarded by Body != nil: everything
\* the stream still holds; the read error is discarded.
ReadAll(c) == IF c.hasBody THEN Unread(c) ELSE <<>>

\* string(bodyBytes)
BytesToString(bs) == bs

\* raven.NewPacketWithExtra / raven.NewPacket
NewPacketWithExtra(msg, extra, st, http) ==
  [Message |-> msg, hasExtra |-> TRUE, Extra |-> extra,
   Stacktrace |-> st, Http |-> http]
NewPacket(msg, st, http) ==
  [Message |-> msg, hasExtra |-> FALSE, Extra |-> {},
   Stacktrace |-> st, Http |-> http]
NoPacket == NewPacket("", "", EmptyHttp)

\* if len(bodyBytes) > 0 { NewPacketWithExtra } else { NewPacket }
BuildPacketAlwaysExtra(msg, bodyBytes, st, http) ==
  NewPacketWithExtra(msg, {<<"requestBody", BytesToString(bodyBytes)>>}, st, http)
BuildPacket(msg, bodyBytes, st, http) ==
  IF Len(bodyBytes) > 0
  THEN NewPacketWithExtra(msg, {<<"requestBody", BytesToString(bodyBytes)>>}, st, http)
  ELSE NewPacket(msg, st, http)

\* raven.NewException(err, raven.NewStacktrace(2, 3, nil))
NewException(msg) == "exception:" \o msg

\* ------------------------------------------------------------------- state
VARIABLES
  sentry,     \* var sentry = &Sentry{}: withContext, RavenClient, Tags
  tagsFunc,   \* var tagsFunc TagsFunc
  alive,      \* FALSE once log.Fatal has exited the process
  panicnil,   \* the build recovers panic(nil) as nil (pre-1.21 semantics)
  inv,        \* per goroutine: the wrapper invocation's position and locals
  obs,        \* per goroutine: what the invocation did to its collaborators
  origin,     \* the tagsFunc call that last wrote sentry.Tags
  lastToggle  \* the argument of the latest WithContext call, init's before one

vars == <<sentry, tagsFunc, alive, panicnil, inv, obs, origin, lastToggle>>

\* A request: the body stream is its data and the read position.
NoRequest == [path |-> "", method |-> "", headers |-> {},
              hasBody |-> FALSE, body |-> <<>>, off |-> 0]
Requests(lens) ==
  {c \in [path : Paths, method : {"GET", "POST"},
          headers : {{<<"User-Agent", "ua">>}}, hasBody : BOOLEAN,
          body : {BodyOfLen(n) : n \in lens}, off : {0}] :
     /\ c.method = (IF Len(c.body) > 0 THEN "POST" ELSE "GET")
     /\ c.hasBody \/ Len(c.body) = 0}

NoOut == [kind |-> "none", err |-> "", payload |-> PNone]
Returned(e) == [kind |-> "returned", err |-> e, payload |-> PNone]
Panicked(p) == [kind |-> "panicked", err |-> "", payload |-> p]
NoOrigin == [by |-> "none", fn |-> Nil, path |-> ""]
NoReport == [packet |-> NoPacket, tags |-> NoTags]

IdleInv ==
  [pc |-> "idle", c |-> NoRequest, h |-> HNil, rval |-> PNone,
   errorMsg |-> "", httpContext |-> EmptyHttp, bodyBytes |-> <<>>,
   packet |-> NoPacket]

IdleObs ==
  [calls |-> 0, report |-> NoReport, errors |-> <<>>, out |-> NoOut,
   faultOff |-> 0, toggleRead |-> FALSE, fnCalled |-> Nil, sendOk |-> TRUE,
   trace |-> <<>>]

\* var sentry = &Sentry{} followed by init(): withContext = true
Init ==
  /\ sentry = [withContext |-> TRUE, RavenClient |-> NilClient, Tags |-> NoTags]
  /\ tagsFunc = Nil
  /\ alive = TRUE
  /\ panicnil \in BOOLEAN
  /\ inv = [r \in Slots |-> IdleInv]
  /\ obs = [r \in Slots |-> IdleObs]
  /\ origin = NoOrigin
  /\ lastToggle = TRUE

\* ----------------------------------------------------------- setup calls

\* SetDSN with the store moved before the error check.
SetDSNStoreFirst(dsn) ==
  /\ alive
  /\ LET r == RavenNew(dsn) IN
       /\ sentry' = [sentry EXCEPT !.RavenClient = r.client]
       /\ alive' = (r.err = Nil)
  /\ UNCHANGED <<tagsFunc, panicnil, inv, obs, origin, lastToggle>>

\* func SetDSN(dsn string)
SetDSN(dsn) ==
  /\ alive
  /\ LET r == RavenNew(dsn) IN
       IF r.err # Nil
       THEN /\ alive' = FALSE              \* log.Fatal(err)
            /\ UNCHANGED sentry
       ELSE /\ sentry' = [sentry EXCEPT !.RavenClient = r.client]
            /\ UNCHANGED alive
  /\ UNCHANGED <<tagsFunc, panicnil, inv, obs, origin, lastToggle>>

\* WithContext able to switch the context on but not off.
WithContextEnableOnly(yepnope) ==
  /\ alive
  /\ sentry' = [sentry EXCEPT !.withContext = @ \/ yepnope]
  /\ lastToggle' = yepnope
  /\ UNCHANGED <<tagsFunc, alive, panicnil, inv, obs, origin>>

\* func WithContext(yepnope bool)
WithContext(yepnope) ==
  /\ alive
  /\ sentry' = [sentry EXCEPT !.withContext = yepnope]
  /\ lastToggle' = yepnope
  /\ UNCHANGED <<tagsFunc, alive, panicnil, inv, obs, origin>>

\* func SetTags(fn TagsFunc)
SetTags(fn) ==
  /\ alive
  /\ tagsFunc' = fn
  /\ UNCHANGED <<sentry, alive, panicnil, inv, obs, origin, lastToggle>>

\* ------------------------------------------------- the wrapper invocation

InFlight(r) == inv[r].pc \notin {"idle", "done"}

\* The host calls the wrapper func(c echo.Context) error with a request
\* whose body length is drawn from lens.
Call(r, lens) ==
  /\ alive
  /\ inv[r].pc = "idle"
  /\ \E c \in Requests(lens) :
       inv' = [inv EXCEPT ![r] = [IdleInv EXCEPT !.pc = "handler", !.c = c]]
  /\ obs' = [obs EXCEPT ![r] = IdleObs]
  /\ UNCHANGED <<sentry, tagsFunc, alive, panicnil, origin, lastToggle>>

\* return h(c): the handler reads k bytes of the body, then returns nil or
\* an error, or panics; its result is drawn from results.
RunHandler(r, results) ==
  /\ alive
  /\ inv[r].pc = "handler"
  /\ \E k \in 0..Len(inv[r].c.body), res \in results :
       /\ inv[r].c.hasBody \/ k = 0
       /\ inv' = [inv EXCEPT ![r].pc = "recover", ![r].h = res, ![r].c.off = k]
       /\ obs' = [obs EXCEPT ![r].faultOff = k]
  /\ UNCHANGED <<sentry, tagsFunc, alive, panicnil, origin, lastToggle>>

\* The wrapper's result with the handler's error dropped.
PassThroughNil(h) == Returned("")
\* return h(c) when nothing is captured: h's own result, or the zero value
\* when a panic(nil) was recovered as nil.
PassThrough(h) == Returned(h.err)

\* defer func() { if rval := recover(); rval != nil { errorMsg, err ... } }()
DeferRecover(r) ==
  /\ alive
  /\ inv[r].pc = "recover"
  /\ LET rval == Recover(inv[r].h, panicnil) IN
       IF ShouldCapture(rval)
       THEN /\ inv' = [inv EXCEPT ![r].pc = "toggle", ![r].rval = rval,
                                  ![r].errorMsg = Sprint(rval)]
            /\ obs' = [obs EXCEPT ![r].trace = Append(@, "normalize")]
       ELSE /\ inv' = [inv EXCEPT ![r].pc = "done"]
            /\ obs' = [obs EXCEPT ![r].out = PassThrough(inv[r].h)]
  /\ UNCHANGED <<sentry, tagsFunc, alive, panicnil, origin, lastToggle>>

\* httpContext := &raven.Http{}; if sentry.withContext { ... }
ReadToggle(r) ==
  /\ alive
  /\ inv[r].pc = "toggle"
  /\ inv' = [inv EXCEPT ![r].pc = "tagcheck",
                        ![r].httpContext = HttpContext(sentry.withContext, inv[r].c)]
  /\ obs' = [obs EXCEPT ![r].toggleRead = sentry.withContext,
                        ![r].trace = Append(@, "toggle")]
  /\ UNCHANGED <<sentry, tagsFunc, alive, panicnil, origin, lastToggle>>

\* if tagsFunc != nil
CheckTagsFunc(r) ==
  /\ alive
  /\ inv[r].pc = "tagcheck"
  /\ inv' = [inv EXCEPT ![r].pc = IF tagsFunc # Nil THEN "tagcall" ELSE "body"]
  /\ UNCHANGED <<sentry, tagsFunc, alive, panicnil, obs, origin, lastToggle>>

\* The extractor call with a recover of its own: a panic in it is dropped
\* and the interception goes on without new tags.
CallTagsFuncGuarded(r) ==
  /\ alive
  /\ inv[r].pc = "tagcall"
  /\ inv' = [inv EXCEPT ![r].pc = "body"]
  /\ IF tagsFunc = Nil \/ tagsFunc = "fnPanic"
     THEN /\ obs' = [obs EXCEPT ![r].trace = Append(@, "extract")]
          /\ UNCHANGED <<sentry, origin>>
     ELSE /\ sentry' = StoreTags(sentry, tagsFunc, inv[r].c)
          /\ origin' = [by |-> r, fn |-> tagsFunc, path |-> inv[r].c.path]
          /\ obs' = [obs EXCEPT ![r].fnCalled = tagsFunc,
                                ![r].trace = Append(@, "extract")]
  /\ UNCHANGED <<tagsFunc, alive, panicnil, lastToggle>>

\* sentry.Tags = tagsFunc(c): tagsFunc is loaded again; a panic raised here
\* is raised inside the deferred function and leaves the wrapper.
CallTagsFunc(r) ==
  /\ alive
  /\ inv[r].pc = "tagcall"
  /\ IF tagsFunc = Nil \/ tagsFunc = "fnPanic"
     THEN /\ inv' = [inv EXCEPT ![r].pc = "done"]
          /\ obs' = [obs EXCEPT ![r].out = Panicked(IF tagsFunc = Nil THEN NilFuncCall
                                                    ELSE ExtractorPanic),
                                ![r].trace = Append(@, "extract")]
          /\ UNCHANGED <<sentry, origin>>
     ELSE /\ sentry' = StoreTags(sentry, tagsFunc, inv[r].c)
          /\ origin' = [by |-> r, fn |-> tagsFunc, path |-> inv[r].c.path]
          /\ inv' = [inv EXCEPT ![r].pc = "body"]
          /\ obs' = [obs EXCEPT ![r].fnCalled = tagsFunc,
                                ![r].trace = Append(@, "extract")]
  /\ UNCHANGED <<tagsFunc, alive, panicnil, lastToggle>>

\* The body read and then put back for later readers.
ReadBodyRestore(r) ==
  /\ alive
  /\ inv[r].pc = "body"
  /\ inv' = [inv EXCEPT ![r].pc = "packet", ![r].bodyBytes = ReadAll(inv[r].c)]
  /\ obs' = [obs EXCEPT ![r].trace = Append(@, "body")]
  /\ UNCHANGED <<sentry, tagsFunc, alive, panicnil, origin, lastToggle>>

\* if c.Request().Body != nil { bodyBytes, _ = ioutil.ReadAll(...) }
ReadBody(r) ==
  /\ alive
  /\ inv[r].pc = "body"
  /\ inv' = [inv EXCEPT ![r].pc = "packet", ![r].bodyBytes = ReadAll(inv[r].c),
                        ![r].c.off = IF inv[r].c.hasBody THEN Len(inv[r].c.body) ELSE @]
  /\ obs' = [obs EXCEPT ![r].trace = Append(@, "body")]
  /\ UNCHANGED <<sentry, tagsFunc, alive, panicnil, origin, lastToggle>>

\* var packet *raven.Packet; if len(bodyBytes) > 0 { ... } else { ... }
Assemble(r) ==
  /\ alive
  /\ inv[r].pc = "packet"
  /\ inv' = [inv EXCEPT ![r].pc = "capture",
                        ![r].packet = BuildPacket(inv[r].errorMsg, inv[r].bodyBytes,
                                                  NewException(inv[r].errorMsg),
                                                  inv[r].httpContext)]
  /\ obs' = [obs EXCEPT ![r].trace = Append(@, "assemble")]
  /\ UNCHANGED <<sentry, tagsFunc, alive, panicnil, origin, lastToggle>>

\* The tags argument, were it the invocation's own extraction.
CaptureTagsOwn(s, fn, c) == IF fn # Nil THEN ApplyTagsFunc(fn, c) ELSE s.Tags
\* The tags argument of sentry.RavenClient.Capture(packet, sentry.Tags);
\* fn is the extractor this invocation called (Nil if none), c its request.
CaptureTags(s, fn, c) == s.Tags

\* Capture calls made for one fault when a failed send is tried again.
DispatchAttemptsRetry(ok) == IF ok THEN 1 ELSE 2
\* Capture calls made for one fault: the event id and the error channel
\* that Capture returns are dropped, so the outcome ok changes nothing.
DispatchAttempts(ok) == 1

\* sentry.RavenClient.Capture(packet, sentry.Tags); the collector accepts
\* the packet or the send fails, as drawn from outcomes.
Capture(r, outcomes) ==
  /\ alive
  /\ inv[r].pc = "capture"
  /\ inv' = [inv EXCEPT ![r].pc = "error"]
  /\ \E ok \in outcomes :
       obs' = [obs EXCEPT ![r].calls = @ + DispatchAttempts(ok),
                          ![r].sendOk = ok,
                          ![r].trace = Append(@, "dispatch"),
                          ![r].report = [packet |-> inv[r].packet,
                                         tags |-> CaptureTags(sentry, obs[r].fnCalled,
                                                              inv[r].c)]]
  /\ UNCHANGED <<sentry, tagsFunc, alive, panicnil, origin, lastToggle>>

\* c.Error(err) placed before the Capture call.
RegisterErrorFirst(r) ==
  /\ alive
  /\ IF inv[r].pc = "capture" /\ obs[r].errors = <<>>
     THEN /\ obs' = [obs EXCEPT ![r].errors = Append(@, inv[r].errorMsg),
                                ![r].trace = Append(@, "register")]
          /\ UNCHANGED inv
     ELSE /\ inv[r].pc = "error"
          /\ inv' = [inv EXCEPT ![r].pc = "done"]
          /\ obs' = [obs EXCEPT ![r].out = Returned("")]
  /\ UNCHANGED <<sentry, tagsFunc, alive, panicnil, origin, lastToggle>>

\* c.Error(err), then the deferred function and the wrapper return
RegisterError(r) ==
  /\ alive
  /\ inv[r].pc = "error"
  /\ inv' = [inv EXCEPT ![r].pc = "done"]
  /\ obs' = [obs EXCEPT ![r].errors = Append(@, inv[r].errorMsg),
                        ![r].out = Returned(""),
                        ![r].trace = Append(@, "register")]
  /\ UNCHANGED <<sentry, tagsFunc, alive, panicnil, origin, lastToggle>>

\* The host is finished with the request; the goroutine serves the next one.
Release(r) ==
  /\ alive
  /\ inv[r].pc = "done"
  /\ inv' = [inv EXCEPT ![r] = IdleInv]
  /\ obs' = [obs EXCEPT ![r] = IdleObs]
  /\ UNCHANGED <<sentry, tagsFunc, alive, panicnil, origin, lastToggle>>

\* The steps of an invocation after the call and the handler.
Deferred(r, outcomes) ==
  \/ DeferRecover(r)
  \/ ReadToggle(r)
  \/ CheckTagsFunc(r)
  \/ CallTagsFunc(r)
  \/ ReadBody(r)
  \/ Assemble(r)
  \/ Capture(r, outcomes)
  \/ RegisterError(r)
  \/ Release(r)

\* ----------------------------------------------------------- specifications

\* One request in flight at a time (goroutine w1), any request and handler;
\* the setup calls run at any moment, also in the middle of an invocation.
BodyLens == 0..MaxBodyLen

Next ==
  \/ \E dsn \in DSNs : SetDSN(dsn)
  \/ \E b \in BOOLEAN : WithContext(b)
  \/ \E fn \in TagsFuncs \cup {Nil} : SetTags(fn)
  \/ Call("w1", BodyLens)
  \/ RunHandler("w1", HandlerResults)
  \/ Deferred("w1", BOOLEAN)

Spec == Init /\ [][Next]_vars

\* Two goroutines serve bodiless requests concurrently, the context toggle
\* left at its default and every send accepted.
NextConc ==
  \/ \E dsn \in ValidDSNs : SetDSN(dsn)
  \/ \E fn \in TagsFuncs \cup {Nil} : SetTags(fn)
  \/ \E r \in Slots : Call(r, {0})
  \/ \E r \in Slots : RunHandler(r, {HNil, HPanic(PStr("boom"))})
  \/ \E r \in Slots : Deferred(r, {TRUE})

SpecConc == Init /\ [][NextConc]_vars

\* ------------------------------------------------------------ properties

\* The statements of the deferred function in source order.
StepOrder == <<"normalize", "toggle", "extract", "body", "assemble",
               "dispatch", "register">>
Rank(step) == CHOOSE i \in 1..Len(StepOrder) : StepOrder[i] = step

Done(r) == inv[r].pc = "done"
HandlerPanicked(r) == inv[r].pc \notin {"idle", "handler"} /\ inv[r].h.kind = "panic"
Reported(r) == obs[r].calls > 0
Report(r) == obs[r].report
\* The body the stream still held when the handler stopped.
UnreadAtFault(r) ==
  IF inv[r].c.hasBody
  THEN SubSeq(inv[r].c.body, obs[r].faultOff + 1, Len(inv[r].c.body))
  ELSE <<>>

\* C1: with a collector configured, a finished invocation has dispatched one
\* report if its handler panicked and none otherwise, and a panicking one
\* has returned with its error registered on the context.
C1_OneReportPerFault ==
  \A r \in Slots :
    (Done(r) /\ sentry.RavenClient # NilClient) =>
      /\ obs[r].calls = (IF inv[r].h.kind = "panic" THEN 1 ELSE 0)
      /\ inv[r].h.kind = "panic" =>
           /\ obs[r].out.kind = "returned"
           /\ Len(obs[r].errors) = 1

\* C2: an invocation whose handler returned nil or an ordinary error never
\* calls RavenClient.Capture, whatever the toggle and the extractor are.
C2_NoReportWithoutFault ==
  \A r \in Slots : inv[r].h.kind \in {"nil", "err"} => obs[r].calls = 0

C2_Witness ==
  \E r \in Slots :
    /\ Done(r)
    /\ inv[r].h = HErr("not found")
    /\ obs[r].out = Returned("not found")
    /\ tagsFunc = "fnEnv"
    /\ ~sentry.withContext

\* C3: when the handler panics, the wrapper returns normally with a nil
\* error, and the caller sees exactly one c.Error registration, of the
\* normalized error.
C3_FaultAbsorbed ==
  \A r \in Slots :
    (Done(r) /\ inv[r].h.kind = "panic") =>
      /\ obs[r].out = Returned("")
      /\ \E msg \in {"boom", "42", "bad",
                     "panic called with nil argument (obsolete: use GODEBUG=panicnil=1)"} :
           obs[r].errors = <<msg>>

\* C4: with one request in flight, the tags of a report dispatched by an
\* invocation that found an extractor registered are the output of that
\* extractor for the invocation's own request.
C4_TagsOfOwnRequest ==
  \A r \in Slots :
    (Reported(r) /\ obs[r].fnCalled # Nil) =>
      Report(r).tags = ApplyTagsFunc(obs[r].fnCalled, inv[r].c)

C4_Witness ==
  \E r \in Slots :
    /\ Reported(r)
    /\ obs[r].fnCalled = "fnPath"
    /\ inv[r].c.path = "/b"
    /\ Report(r).tags = {<<"path", "/b">>}
    /\ tagsFunc = "fnEnv"

\* C5: the tags handed to Capture are the output of the tagsFunc call that
\* last wrote sentry.Tags, whichever invocation made it; with two
\* invocations in flight that call can be the other request's.
C5_TagsOfLastWriter ==
  [][\A r \in Slots :
       (inv[r].pc = "capture" /\ inv'[r].pc = "error") =>
         obs'[r].report.tags =
           (IF origin.by = "none" THEN NoTags
            ELSE ApplyTagsFunc(origin.fn, [path |-> origin.path]))]_vars

C5_Witness ==
  \E r \in Slots, q \in Slots :
    /\ r # q
    /\ Reported(r) /\ HandlerPanicked(r) /\ HandlerPanicked(q)
    /\ obs[r].fnCalled # Nil /\ obs[q].fnCalled # Nil
    /\ Report(r).tags # ApplyTagsFunc(obs[r].fnCalled, inv[r].c)
    /\ Report(r).tags = ApplyTagsFunc(obs[q].fnCalled, inv[q].c)

\* C6: a report dispatched by an invocation that found no extractor
\* registered carries the empty tag map.
C6_NoExtractorNoTags ==
  \A r \in Slots :
    (Reported(r) /\ obs[r].fnCalled = Nil) => Report(r).tags = NoTags

\* C7: a dispatched packet has the extra entry requestBody, holding exactly
\* the body left unread when the handler panicked, if and only if that
\* rest is non-empty; otherwise it is the packet without extra data.
C7_ExtraIffUnreadBody ==
  \A r \in Slots :
    Reported(r) =>
      /\ Report(r).packet.hasExtra <=> (UnreadAtFault(r) # <<>>)
      /\ Report(r).packet.hasExtra =>
           Report(r).packet.Extra = {<<"requestBody", UnreadAtFault(r)>>}
      /\ ~Report(r).packet.hasExtra =>
           Report(r).packet = NewPacket(inv[r].errorMsg, NewException(inv[r].errorMsg),
                                        inv[r].httpContext)

C7_Witness ==
  \E r \in Slots :
    /\ Reported(r)
    /\ Len(inv[r].c.body) = 2
    /\ obs[r].faultOff = 1
    /\ Report(r).packet.hasExtra
    /\ Report(r).packet.Extra = {<<"requestBody", <<BodyByte(2)>> >>}

\* C8: when the handler has read the whole non-empty body before it
\* panics, the dispatched packet still has the extra entry with that body.
C8_ConsumedBodyReported ==
  \A r \in Slots :
    (Reported(r) /\ inv[r].c.hasBody /\ Len(inv[r].c.body) > 0
       /\ obs[r].faultOff = Len(inv[r].c.body)) =>
      /\ Report(r).packet.hasExtra
      /\ Report(r).packet.Extra = {<<"requestBody", inv[r].c.body>>}

\* C9: the HTTP context of a dispatched packet is the empty raven.Http when
\* sentry.withContext was false as the deferred function read it, and is
\* built from the invocation's own request when it was true.
C9_HttpContextFollowsToggle ==
  \A r \in Slots :
    Reported(r) =>
      Report(r).packet.Http =
        (IF obs[r].toggleRead THEN NewHttp(inv[r].c) ELSE EmptyHttp)

C9_Witness ==
  \E r \in Slots :
    /\ Reported(r)
    /\ ~obs[r].toggleRead
    /\ sentry.withContext
    /\ inv[r].c.path = "/a" /\ inv[r].c.method = "POST"
    /\ Report(r).packet.Http = EmptyHttp

\* C10: SetDSN with a malformed DSN exits the process and leaves
\* sentry.RavenClient as it was, nothing runs after the exit, the handle is
\* never one made from a malformed DSN, and a change of the handle stores
\* a non-nil client in a process that goes on.
C10_MalformedDSNIsFatal ==
  /\ [](sentry.RavenClient.dsn \notin MalformedDSNs)
  /\ [][/\ alive
        /\ ~alive' => sentry' = sentry
        /\ sentry'.RavenClient # sentry.RavenClient =>
             /\ alive'
             /\ sentry'.RavenClient \in {[dsn |-> d] : d \in ValidDSNs}]_vars

C10_Witness ==
  /\ ~alive
  /\ sentry.RavenClient = [dsn |-> "https://k@sentry.io/1"]
  /\ \E r \in Slots : InFlight(r)

\* C11: whether the send of the report succeeds or fails, the invocation
\* calls Capture once, registers the normalized error once and returns nil.
C11_DispatchOutcomeUnobserved ==
  \A r \in Slots :
    (Done(r) /\ Reported(r)) =>
      /\ obs[r].calls = 1
      /\ obs[r].errors = <<inv[r].errorMsg>>
      /\ obs[r].out = Returned("")

C11_Witness ==
  \E r \in Slots :
    /\ Done(r) /\ Reported(r)
    /\ ~obs[r].sendOk
    /\ obs[r].errors = <<"boom">>
    /\ obs[r].out = Returned("")

\* C12: the steps an interception has taken are in source order, each at
\* most once and none left out but the extractor call: normalize, read the
\* toggle, call the extractor and store its result, read the body,
\* assemble, dispatch, and only then register the error.
C12_StepsInOrder ==
  \A r \in Slots :
    LET t == obs[r].trace IN
      /\ t # <<>> => t[1] = "normalize"
      /\ \A i \in 1..(Len(t) - 1) :
           /\ Rank(t[i]) < Rank(t[i + 1])
           /\ Rank(t[i + 1]) - Rank(t[i]) <= (IF t[i] = "toggle" THEN 2 ELSE 1)
      /\ (\E i \in 1..Len(t) : t[i] = "body") =>
           ((\E i \in 1..Len(t) : t[i] = "extract") <=> obs[r].fnCalled # Nil)
      /\ Len(obs[r].errors) = Cardinality({i \in 1..Len(t) : t[i] = "register"})
      /\ obs[r].calls = Cardinality({i \in 1..Len(t) : t[i] = "dispatch"})

C12_Witness ==
  \E r \in Slots :
    /\ Done(r)
    /\ obs[r].trace = StepOrder
    /\ obs[r].fnCalled = "fnPath"
    /\ Report(r).tags = sentry.Tags

\* C13: when the handler returns nil or an error, the wrapper returns that
\* same result, registers no error, calls neither the extractor nor
\* Capture, leaves the body stream where the handler left it, and none of
\* its steps changes sentry or tagsFunc.
C13_PassThrough ==
  /\ [](\A r \in Slots :
          (Done(r) /\ inv[r].h.kind \in {"nil", "err"}) =>
            /\ obs[r].out = Returned(inv[r].h.err)
            /\ obs[r].errors = <<>>
            /\ obs[r].trace = <<>>
            /\ obs[r].fnCalled = Nil
            /\ obs[r].calls = 0
            /\ inv[r].c.off = obs[r].faultOff)
  /\ [][\A r \in Slots :
          (inv'[r] # inv[r] /\ inv'[r].h.kind \in {"nil", "err"}) =>
            (sentry' = sentry /\ tagsFunc' = tagsFunc)]_vars

C13_Witness ==
  \E r \in Slots :
    /\ Done(r)
    /\ inv[r].h = HErr("not found")
    /\ obs[r].out = Returned("not found")
    /\ tagsFunc = "fnPath"
    /\ sentry.Tags = NoTags
    /\ Len(inv[r].c.body) = 2 /\ inv[r].c.off = 1

\* C14: sentry.withContext is true initially and is always the argument of
\* the latest WithContext call, whatever it was before; every read of the
\* toggle by the deferred function gets that value and builds the HTTP
\* context from it.
C14_ToggleIsLastArgument ==
  /\ sentry.withContext = TRUE
  /\ [](sentry.withContext = lastToggle)
  /\ [][\A r \in Slots :
          (inv[r].pc = "toggle" /\ inv'[r].pc = "tagcheck") =>
            /\ obs'[r].toggleRead = lastToggle
            /\ inv'[r].httpContext =
                 (IF lastToggle THEN NewHttp(inv[r].c) ELSE EmptyHttp)]_vars

C14_Witness ==
  \E r \in Slots :
    /\ Done(r) /\ Reported(r)
    /\ Report(r).packet.Http = EmptyHttp
    /\ ~obs[r].toggleRead
    /\ ~lastToggle /\ ~sentry.withContext
    /\ sentry.Tags # NoTags

\* C15: the message of a dispatched packet and the message of the error
\* registered with c.Error are one string, the text of the panic value:
\* "boom" for panic("boom"), "42" for panic(42), the error's text for an
\* error value.
C15_MessageIsPayloadText ==
  \A r \in Slots :
    (Done(r) /\ Reported(r)) =>
      /\ obs[r].errors = <<Report(r).packet.Message>>
      /\ inv[r].h.payload = PStr("boom") => Report(r).packet.Message = "boom"
      /\ inv[r].h.payload = PInt(42) => Report(r).packet.Message = "42"
      /\ inv[r].h.payload = PErr("bad") => Report(r).packet.Message = "bad"
      /\ inv[r].h.payload = PNil =>
           Report(r).packet.Message =
             "panic called with nil argument (obsolete: use GODEBUG=panicnil=1)"

C15_Witness ==
  \E r \in Slots :
    /\ Done(r) /\ Reported(r)
    /\ inv[r].h = HPanic(PInt(42))
    /\ Report(r).packet.Message = "42"
    /\ obs[r].errors = <<"42">>

\* C16: once an invocation has dispatched its report for a request with a
\* body stream, the stream is exhausted: a later ReadAll of it returns no
\* bytes, whether or not anything was left unread when the handler panicked.
C16_BodyExhausted ==
  \A r \in Slots :
    (Reported(r) /\ inv[r].c.hasBody) =>
      /\ inv[r].c.off = Len(inv[r].c.body)
      /\ ReadAll(inv[r].c) = <<>>

C16_Witness ==
  \E r \in Slots :
    /\ Done(r) /\ Reported(r)
    /\ inv[r].c.hasBody
    /\ Len(inv[r].c.body) = 2
    /\ obs[r].faultOff = 0
    /\ Report(r).packet.hasExtra
    /\ ReadAll(inv[r].c) = <<>>

\* C17: a step of a wrapper invocation never changes sentry.RavenClient,
\* sentry.withContext or tagsFunc; sentry.Tags changes only in the
\* extractor call of an invocation that is handling a panic, with an
\* extractor registered; sentry.RavenClient changes only in a SetDSN call
\* that succeeds.
C17_SharedWrites ==
  [][/\ (inv' # inv \/ obs' # obs) =>
          /\ sentry'.RavenClient = sentry.RavenClient
          /\ sentry'.withContext = sentry.withContext
          /\ tagsFunc' = tagsFunc
     /\ sentry'.Tags # sentry.Tags =>
          \E r \in Slots :
            /\ inv[r].pc = "tagcall" /\ inv'[r].pc = "body"
            /\ inv[r].h.kind = "panic"
            /\ tagsFunc \in TagsFuncs
            /\ sentry'.Tags = ApplyTagsFunc(tagsFunc, inv[r].c)
     /\ sentry'.RavenClient # sentry.RavenClient =>
          /\ inv' = inv /\ obs' = obs /\ alive'
          /\ tagsFunc' = tagsFunc
          /\ \E dsn \in ValidDSNs :
               sentry' = [sentry EXCEPT !.RavenClient = RavenNew(dsn).client]]_vars

C17_Witness ==
  \E r \in Slots :
    /\ inv[r].pc = "body"
    /\ obs[r].fnCalled = "fnPath"
    /\ origin.by = r
    /\ sentry.Tags = {<<"path", inv[r].c.path>>}
    /\ sentry.RavenClient # NilClient
    /\ ~sentry.withContext

\* C18: when the registered extractor panics during an interception, the
\* panic is not recovered: the invocation ends with that panic leaving the
\* wrapper, sentry untouched, and an invocation that ended with a panic
\* has called Capture and c.Error not at all.
C18_ExtractorPanicEscapes ==
  /\ [](\A r \in Slots :
          obs[r].out.kind = "panicked" =>
            /\ Done(r) /\ inv[r].h.kind = "panic"
            /\ obs[r].calls = 0
            /\ obs[r].errors = <<>>
            /\ obs[r].trace = <<"normalize", "toggle", "extract">>)
  /\ [][\A r \in Slots :
          (inv[r].pc = "tagcall" /\ inv'[r] # inv[r] /\ tagsFunc = "fnPanic") =>
            /\ inv'[r].pc = "done"
            /\ obs'[r].out = Panicked(ExtractorPanic)
            /\ sentry' = sentry]_vars

C18_Witness ==
  \E r \in Slots :
    /\ Done(r)
    /\ inv[r].h = HPanic(PStr("boom"))
    /\ obs[r].out = Panicked(ExtractorPanic)
    /\ obs[r].calls = 0 /\ obs[r].errors = <<>>
    /\ sentry.RavenClient # NilClient

====
